---------------------------- MODULE Spec2Model ----------------------------
(***************************************************************************)
(* A model of the generic-response helpers of thingpedia-api               *)
(* (splitpropchain, get, cast, parseGenericResponse).                      *)
(*                                                                         *)
(* JavaScript strings are modelled as sequences of one-character strings,  *)
(* so that scanning, splitting and joining are computed character by       *)
(* character as the code does.  "\\" is the single backslash character.    *)
(***************************************************************************)
EXTENDS Integers, Sequences, FiniteSets, TLC

VARIABLES
    pc,               \* "init" before the call, "done" after it
    propchainstring,  \* argument of splitpropchain
    chain,            \* value returned by splitpropchain
    segments,         \* the segment sequence that is joined with dots
    obj,              \* first argument of get
    propchain,        \* second argument of get
    value,            \* first argument of cast
    type,             \* second argument of cast
    json,             \* first argument of parseGenericResponse
    fndef,            \* second argument of parseGenericResponse
    ret,              \* outcome of get, cast or parseGenericResponse
    joined,           \* the comma-joined string form of a raw sequence
    ret2,             \* outcome of the second call of a two-call comparison
    url,              \* first argument of formatString: the template
    deviceParams,     \* second argument of formatString
    functionParams,   \* third argument of formatString, undefined when omitted
    nullReplacement,  \* what interpolate puts for a value it does not get
    mixin,            \* first argument of getMixinArgs and findMixinArg
    arg,              \* second argument of findMixinArg
    heap,             \* the objects allocated so far, by address
    records,          \* addresses returned by the last parseGenericResponse
    known,            \* number of objects allocated before that call
    results,          \* per operation, the results of its calls so far
    before,           \* the caller's structures as they were before the calls
    state,            \* BaseDevice: this.state
    events,           \* BaseDevice: the events emitted, with the state seen
    lastCall,         \* BaseDevice: the last method called and its arguments
    prefs,            \* FilePreferences: this._prefs, pairs in insertion order
    dirty,            \* FilePreferences: this._dirty
    writeScheduled,   \* FilePreferences: this._writeScheduled
    timers,           \* FilePreferences: write timers set and not yet fired
    file,             \* FilePreferences: the content of the preference file
    writes,           \* FilePreferences: texts of the file writes in flight
    emitted,          \* FilePreferences: number of 'changed' events emitted
    mutations,        \* FilePreferences: number of set, delete, changed calls
    locale,           \* loadTextdomainDirectory: the locale asked for
    parts,            \* loadTextdomainDirectory: the local split
    mo,               \* loadTextdomainDirectory: the candidate file name
    disk,             \* loadTextdomainDirectory: the files of modir
    parses,           \* loadTextdomainDirectory: whether the file read parses
    gt,               \* loadTextdomainDirectory: the translations added to gt
    logged,           \* loadTextdomainDirectory: the message logged
    ticks             \* HttpPollingTrigger: the calls of _onTick so far

formatVars == <<url, deviceParams, functionParams, nullReplacement>>
mixinVars == <<mixin, arg>>

\* The variables of the components other than the two-call comparisons.
frameVars == <<heap, records, known, results, before>>
deviceVars == <<state, events, lastCall>>
prefsVars ==
    <<prefs, dirty, writeScheduled, timers, file, writes, emitted, mutations>>
localeVars == <<locale, parts, mo, disk, parses, gt, logged>>
lateVars == <<localeVars, ticks>>
otherVars ==
    <<formatVars, mixinVars, frameVars, deviceVars, prefsVars, lateVars>>

vars == <<pc, propchainstring, chain, segments, obj, propchain, value, type,
          json, fndef, ret, joined, ret2, otherVars>>

\* The variables of the later components.
extVars == <<joined, ret2, otherVars>>

pathVars == <<propchainstring, chain, segments>>
valueVars == <<obj, propchain, value, type, json, fndef, ret>>

(***************************************************************************)
(* Bounds of the model.                                                    *)
(***************************************************************************)
MaxLen == 5       \* longest path string given to splitpropchain
MaxSegLen == 2    \* longest segment of a joined path
MaxSegs == 3      \* most segments of a joined path
MaxStrLen == 3    \* longest raw string given to cast
MaxArr == 2       \* longest raw sequence given to cast
MaxElems == 2     \* most elements of a raw response
MaxArgs == 2      \* most arguments of a signature

Min(S) == CHOOSE x \in S : \A y \in S : x <= y

\* All sequences over A of length at most n.
SeqUpTo(A, n) == UNION {[1..k -> A] : k \in 0..n}

PathChars == {"a", "b", ".", "\\"}
PlainChars == {"a", "b"}

(***************************************************************************)
(* splitpropchain                                                          *)
(***************************************************************************)

\* const reg = /[\\.]/g
reg == {"\\", "."}

\* reg.exec(propchainstring) with reg.lastIndex = lastIndex: the 1-based
\* position of the first backslash or dot after the first lastIndex
\* characters, 0 for a null match.
exec(s, lastIndex) ==
    LET hits == {k \in (lastIndex + 1)..Len(s) : s[k] \in reg}
    IN  IF hits = {} THEN 0 ELSE Min(hits)

\* if (match.index > i) { if (escape) escape = false; ... }
ClearEscape_keep(hasText, escape) == escape
ClearEscape(hasText, escape) == IF hasText THEN FALSE ELSE escape

\* chain.push(buffer); buffer = '';  -- the buffer after an unescaped dot
CloseSegment_keep(buffer) == buffer
CloseSegment(buffer) == <<>>

\* chain.push(buffer) after the loop
FinalPush_skipEmpty(ch, buffer) == IF buffer = <<>> THEN ch ELSE Append(ch, buffer)
FinalPush(ch, buffer) == Append(ch, buffer)

\* The while loop: i is reg.lastIndex of the previous match (0 at the start).
RECURSIVE splitLoop(_, _, _, _, _)
splitLoop(s, i, buffer, escape, ch) ==
    LET m == exec(s, i)
    IN  IF m = 0
        THEN LET rest == IF i < Len(s) THEN buffer \o SubSeq(s, i + 1, Len(s))
                                       ELSE buffer
             IN  FinalPush(ch, rest)
        ELSE LET hasText == (m - 1) > i
                 esc == ClearEscape(hasText, escape)
                 buf == IF hasText THEN buffer \o SubSeq(s, i + 1, m - 1)
                                   ELSE buffer
             IN  IF s[m] = "\\"
                 THEN IF esc THEN splitLoop(s, m, Append(buf, "\\"), FALSE, ch)
                             ELSE splitLoop(s, m, buf, TRUE, ch)
                 ELSE IF esc THEN splitLoop(s, m, Append(buf, "."), FALSE, ch)
                             ELSE splitLoop(s, m, CloseSegment(buf), esc,
                                            Append(ch, buf))

splitpropchain(s) == splitLoop(s, 0, <<>>, FALSE, <<>>)

(***************************************************************************)
(* JavaScript values.  Every value is a record whose field t is its kind;  *)
(* TypeError stands for a call that raises instead of returning.           *)
(* Property names are strings, hence sequences of characters.  Properties  *)
(* inherited from the prototypes (toString, constructor, ...) are not own  *)
(* data of any value the model builds and no modelled name spells one.     *)
(***************************************************************************)
Undefined == [t |-> "undefined"]
Null == [t |-> "null"]
NaN == [t |-> "NaN"]
TypeError == [t |-> "TypeError"]
Num(n) == [t |-> "number", n |-> n]
Str(s) == [t |-> "string", s |-> s]
Bool(b) == [t |-> "boolean", b |-> b]
Obj(m) == [t |-> "object", m |-> m]
Arr(e) == [t |-> "array", e |-> e]

EmptyMap == [x \in {} |-> Undefined]
Put(m, k, v) == [x \in (DOMAIN m) \cup {k} |-> IF x = k THEN v ELSE m[x]]

\* typeof value
typeof(v) ==
    CASE v.t = "string" -> "string"
      [] v.t \in {"number", "NaN"} -> "number"
      [] v.t = "boolean" -> "boolean"
      [] v.t = "undefined" -> "undefined"
      [] OTHER -> "object"

\* Array.isArray(value)
isArray(v) == v.t = "array"

DigitChars == <<"0", "1", "2", "3", "4", "5", "6", "7", "8", "9">>
IsDigit(c) == \E d \in 1..10 : DigitChars[d] = c
DigitVal(c) == (CHOOSE d \in 1..10 : DigitChars[d] = c) - 1

RECURSIVE DecimalValue(_)
DecimalValue(s) ==
    IF s = <<>> THEN 0
    ELSE 10 * DecimalValue(SubSeq(s, 1, Len(s) - 1)) + DigitVal(s[Len(s)])

\* A property name that is a canonical array index: "0", "1", "10", ...
IsIndex(prop) ==
    /\ Len(prop) >= 1
    /\ \A k \in 1..Len(prop) : IsDigit(prop[k])
    /\ (Len(prop) > 1 => prop[1] # "0")

K_length == <<"l", "e", "n", "g", "t", "h">>

\* Whether obj has the own property prop (obj already an object or boxed).
HasOwn(v, prop) ==
    CASE v.t = "object" -> prop \in DOMAIN v.m
      [] v.t = "array" ->
            \/ prop = K_length
            \/ IsIndex(prop) /\ DecimalValue(prop) < Len(v.e)
      [] v.t = "string" ->
            \/ prop = K_length
            \/ IsIndex(prop) /\ DecimalValue(prop) < Len(v.s)
      [] OTHER -> FALSE

\* obj[prop]: reading a property of undefined or null raises a TypeError,
\* a primitive is boxed, a missing property reads as undefined.
GetProp(v, prop) ==
    CASE v.t \in {"undefined", "null"} -> TypeError
      [] v.t = "object" -> IF prop \in DOMAIN v.m THEN v.m[prop] ELSE Undefined
      [] v.t = "array" ->
            IF prop = K_length THEN Num(Len(v.e))
            ELSE IF IsIndex(prop) /\ DecimalValue(prop) < Len(v.e)
                 THEN v.e[DecimalValue(prop) + 1]
                 ELSE Undefined
      [] v.t = "string" ->
            IF prop = K_length THEN Num(Len(v.s))
            ELSE IF IsIndex(prop) /\ DecimalValue(prop) < Len(v.s)
                 THEN Str(<<v.s[DecimalValue(prop) + 1]>>)
                 ELSE Undefined
      [] OTHER -> Undefined

(***************************************************************************)
(* get                                                                     *)
(***************************************************************************)

\* for (let prop of splitpropchain(propchain)) obj = obj[prop];
RECURSIVE getLoop(_, _, _)
getLoop(v, props, k) ==
    IF k > Len(props) THEN v
    ELSE LET next == GetProp(v, props[k])
         IN  IF next = TypeError THEN TypeError ELSE getLoop(next, props, k + 1)

get(v, path) == getLoop(v, splitpropchain(path), 1)

(***************************************************************************)
(* cast                                                                    *)
(*                                                                         *)
(* A type is a record whose field k is the kind; an Array type carries its *)
(* element type in elem.  type.isArray is type.k = "Array", and so on.     *)
(***************************************************************************)
TString == [k |-> "String"]
TNumber == [k |-> "Number"]
TBoolean == [k |-> "Boolean"]
TDate == [k |-> "Date"]
TMeasure == [k |-> "Measure"]
TCurrency == [k |-> "Currency"]
TEntity == [k |-> "Entity"]
TLocation == [k |-> "Location"]
TArray(elem) == [k |-> "Array", elem |-> elem]

K_value == <<"v", "a", "l", "u", "e">>
K_unit == <<"u", "n", "i", "t">>
K_display == <<"d", "i", "s", "p", "l", "a", "y">>
K_x == <<"x">>
K_y == <<"y">>
K_latitude == <<"l", "a", "t", "i", "t", "u", "d", "e">>
K_longitude == <<"l", "o", "n", "g", "i", "t", "u", "d", "e">>
K_lat == <<"l", "a", "t">>
K_lon == <<"l", "o", "n">>
S_usd == <<"u", "s", "d">>

\* The objects of ThingTalk.Builtin and the built-in Date, as built by
\* their constructors from the arguments cast passes.
Currency(amount, unit) == [t |-> "Currency", value |-> amount, unit |-> unit]
Entity(id, display) == [t |-> "Entity", value |-> id, display |-> display]
Location(lat, lon, display) ==
    [t |-> "Location", lat |-> lat, lon |-> lon, display |-> display]
Date(raw) == [t |-> "Date", of |-> raw]

\* \s of the regular expression and the white space parseFloat skips
IsSpace(c) == c = " "

\* value.split(/,\s*/g): a comma and the white space after it separate
\* two pieces; a string without a comma is a single piece.
RECURSIVE splitLoopComma(_, _, _, _)
splitLoopComma(s, k, piece, out) ==
    IF k > Len(s) THEN Append(out, piece)
    ELSE IF s[k] = ","
         THEN LET after == {j \in (k + 1)..Len(s) : ~IsSpace(s[j])}
                  resume == IF after = {} THEN Len(s) + 1 ELSE Min(after)
              IN  splitLoopComma(s, resume, <<>>, Append(out, piece))
         ELSE splitLoopComma(s, k + 1, Append(piece, s[k]), out)

split(s) == splitLoopComma(s, 1, <<>>, <<>>)

\* parseFloat(string): skips leading white space and reads the longest
\* numeric prefix, NaN when there is none.  The strings of the model hold
\* digits, letters, commas and blanks: no sign, fraction or exponent.
RECURSIVE SkipSpace(_)
SkipSpace(s) == IF s # <<>> /\ IsSpace(s[1]) THEN SkipSpace(Tail(s)) ELSE s

DigitPrefix(s) ==
    LET stops == {k \in 1..Len(s) : ~IsDigit(s[k])}
    IN  IF stops = {} THEN s ELSE SubSeq(s, 1, Min(stops) - 1)

parseFloat(s) ==
    LET d == DigitPrefix(SkipSpace(s))
    IN  IF d = <<>> THEN NaN ELSE Num(DecimalValue(d))

\* value.value, value.unit, ... in cast: a property read of the raw value
Field(v, prop) == GetProp(v, prop)

\* Object.prototype.hasOwnProperty.call(value, prop): raises on undefined
\* and null, boxes a primitive.
hasOwnProperty(v, prop) ==
    IF v.t \in {"undefined", "null"} THEN TypeError ELSE Bool(HasOwn(v, prop))

RECURSIVE cast(_, _)

\* pieces.map((v) => cast(v, type.elem)): raises when one element raises
castEach(elems, elemType) ==
    LET r == [i \in 1..Len(elems) |-> cast(elems[i], elemType)]
    IN  IF \E i \in 1..Len(elems) : r[i] = TypeError THEN TypeError ELSE Arr(r)

\* The variant that applies the default unit to an object as well.
castCurrencyObject_defaultUnit(v) ==
    IF v.t \in {"undefined", "null"} THEN TypeError
    ELSE Currency(Field(v, K_value), Str(S_usd))

\* new ThingTalk.Builtin.Currency(value.value, value.unit)
castCurrencyObject(v) ==
    IF v.t \in {"undefined", "null"} THEN TypeError
    ELSE Currency(Field(v, K_value), Field(v, K_unit))

\* new ThingTalk.Builtin.Entity(value.value, value.display)
castEntityObject(v) ==
    IF v.t \in {"undefined", "null"} THEN TypeError
    ELSE Entity(Field(v, K_value), Field(v, K_display))

\* The variant that tests latitude/longitude before x/y.
castLocation_latitudeFirst(v) ==
    IF hasOwnProperty(v, K_x) = TypeError THEN TypeError
    ELSE IF HasOwn(v, K_latitude) /\ HasOwn(v, K_longitude)
         THEN Location(Field(v, K_latitude), Field(v, K_longitude),
                       Field(v, K_display))
    ELSE IF HasOwn(v, K_x) /\ HasOwn(v, K_y)
         THEN Location(Field(v, K_y), Field(v, K_x), Field(v, K_display))
    ELSE Location(Field(v, K_lat), Field(v, K_lon), Field(v, K_display))

\* The Location branch: x/y first, then latitude/longitude, then lat/lon.
castLocation(v) ==
    IF hasOwnProperty(v, K_x) = TypeError THEN TypeError
    ELSE IF HasOwn(v, K_x) /\ HasOwn(v, K_y)
         THEN Location(Field(v, K_y), Field(v, K_x), Field(v, K_display))
    ELSE IF HasOwn(v, K_latitude) /\ HasOwn(v, K_longitude)
         THEN Location(Field(v, K_latitude), Field(v, K_longitude),
                       Field(v, K_display))
    ELSE Location(Field(v, K_lat), Field(v, K_lon), Field(v, K_display))

cast(v, ty) ==
    IF ty.k = "Array" /\ typeof(v) = "string"
        THEN castEach([i \in 1..Len(split(v.s)) |-> Str(split(v.s)[i])], ty.elem)
    ELSE IF ty.k = "Array"
        THEN IF isArray(v) THEN castEach(v.e, ty.elem)
             ELSE TypeError     \* value.map is not a function
    ELSE IF ty.k = "Date"
        THEN Date(v)
    ELSE IF ty.k \in {"Number", "Measure"} /\ typeof(v) = "string"
        THEN parseFloat(v.s)
    ELSE IF ty.k = "Currency" /\ typeof(v) = "number"
        THEN Currency(v, Str(S_usd))
    ELSE IF ty.k = "Currency" /\ typeof(v) = "string"
        THEN Currency(parseFloat(v.s), Str(S_usd))
    ELSE IF ty.k = "Currency"
        THEN castCurrencyObject(v)
    ELSE IF ty.k = "Entity" /\ typeof(v) = "string"
        THEN Entity(v, Null)
    ELSE IF ty.k = "Entity"
        THEN castEntityObject(v)
    ELSE IF ty.k = "Location"
        THEN castLocation(v)
    ELSE v

(***************************************************************************)
(* parseGenericResponse                                                    *)
(*                                                                         *)
(* A function signature fndef is [args, json_key]: args is the sequence of *)
(* its arguments in declaration order, each [name, is_input, type,         *)
(* json_key].  An annotation is NoKey when absent and <<path>> when set.   *)
(***************************************************************************)
NoKey == <<>>

\* The raw field of one output argument: by its json_key annotation through
\* get, else by its own name.
rawField(result, argdef) ==
    IF argdef.json_key # NoKey THEN get(result, argdef.json_key[1])
    ELSE GetProp(result, argdef.name)

\* The for loop of extractOne from argument k on; extracted holds the
\* keys written so far.
RECURSIVE extractLoop(_, _, _, _)
extractLoop(result, args, k, extracted) ==
    IF k > Len(args) THEN Obj(extracted)
    ELSE IF args[k].is_input THEN extractLoop(result, args, k + 1, extracted)
    ELSE LET raw == rawField(result, args[k])
             val == IF raw = TypeError THEN TypeError ELSE cast(raw, args[k].type)
         IN  IF val = TypeError THEN TypeError
             ELSE extractLoop(result, args, k + 1,
                              Put(extracted, args[k].name, val))

extractOne_nullSafe(result, fn) ==
    IF result.t \in {"undefined", "null"} THEN Obj(EmptyMap)
    ELSE extractLoop(result, fn.args, 1, EmptyMap)
extractOne(result, fn) == extractLoop(result, fn.args, 1, EmptyMap)

\* if (fndef.annotations.json_key) json = get(json, ...)
unwrap(js, fn) ==
    IF fn.json_key # NoKey THEN get(js, fn.json_key[1]) ELSE js

\* json.map(extractOne): raises when one element raises
extractEach(elems, fn) ==
    LET r == [i \in 1..Len(elems) |-> extractOne(elems[i], fn)]
    IN  IF \E i \in 1..Len(elems) : r[i] = TypeError THEN TypeError ELSE Arr(r)

\* [extractOne(json)]
extractSingle(js, fn) ==
    LET r == extractOne(js, fn)
    IN  IF r = TypeError THEN TypeError ELSE Arr(<<r>>)

\* The variant that tests Array.isArray on the response before unwrapping it.
parseGenericResponse_decideFirst(js, fn) ==
    LET payload == unwrap(js, fn)
    IN  IF payload = TypeError THEN TypeError
        ELSE IF isArray(js)
             THEN IF isArray(payload) THEN extractEach(payload.e, fn) ELSE TypeError
             ELSE extractSingle(payload, fn)

parseGenericResponse(js, fn) ==
    LET payload == unwrap(js, fn)
    IN  IF payload = TypeError THEN TypeError
        ELSE IF isArray(payload) THEN extractEach(payload.e, fn)
        ELSE extractSingle(payload, fn)

(***************************************************************************)
(* Helpers of the properties: the one-pass reference scanner, the count of *)
(* unescaped dots, and Array.prototype.join('.').                          *)
(***************************************************************************)

\* One character at a time with a single escape-pending flag.
RECURSIVE RefScan(_, _, _, _, _)
RefScan(s, k, buffer, pending, out) ==
    IF k > Len(s) THEN Append(out, buffer)
    ELSE IF pending THEN RefScan(s, k + 1, Append(buffer, s[k]), FALSE, out)
    ELSE IF s[k] = "\\" THEN RefScan(s, k + 1, buffer, TRUE, out)
    ELSE IF s[k] = "." THEN RefScan(s, k + 1, <<>>, FALSE, Append(out, buffer))
    ELSE RefScan(s, k + 1, Append(buffer, s[k]), FALSE, out)

\* The number of backslashes immediately before position k.
RECURSIVE BackslashRun(_, _)
BackslashRun(s, k) ==
    IF k > 1 /\ s[k - 1] = "\\" THEN 1 + BackslashRun(s, k - 1) ELSE 0

\* A dot is unescaped when an even number of backslashes precedes it.
UnescapedDots(s) ==
    {k \in 1..Len(s) : s[k] = "." /\ BackslashRun(s, k) % 2 = 0}

RECURSIVE JoinDots(_)
JoinDots(segs) ==
    IF Len(segs) = 0 THEN <<>>
    ELSE IF Len(segs) = 1 THEN segs[1]
    ELSE segs[1] \o <<".">> \o JoinDots(Tail(segs))

(***************************************************************************)
(* Values of the variables a specification does not use.                   *)
(***************************************************************************)
Pending == [t |-> "pending"]
NoType == [k |-> "none"]
NoFn == [args |-> <<>>, json_key |-> NoKey]

PathIdle ==
    /\ propchainstring = <<>>
    /\ chain = <<>>
    /\ segments = <<>>

GetIdle == obj = Undefined /\ propchain = <<>>
CastIdle == value = Undefined /\ type = NoType
ExtractIdle == json = Undefined /\ fndef = NoFn

ValueIdle == GetIdle /\ CastIdle /\ ExtractIdle /\ ret = Pending

CompareIdle == joined = <<>> /\ ret2 = Pending

FormatIdle ==
    /\ url = <<>>
    /\ deviceParams = Undefined
    /\ functionParams = Undefined
    /\ nullReplacement = "none"

MixinIdle == mixin = [in_params |-> <<>>] /\ arg = <<>>

FrameIdle ==
    /\ heap = <<>>
    /\ records = <<>>
    /\ known = 0
    /\ results = <<>>
    /\ before = <<>>

DeviceIdle == state = Undefined /\ events = <<>> /\ lastCall = [op |-> "none"]

PrefsIdle ==
    /\ prefs = <<>>
    /\ dirty = FALSE
    /\ writeScheduled = FALSE
    /\ timers = 0
    /\ file = [t |-> "absent"]
    /\ writes = <<>>
    /\ emitted = 0
    /\ mutations = 0

LocaleIdle ==
    /\ locale = <<>>
    /\ parts = <<>>
    /\ mo = <<>>
    /\ disk = {}
    /\ parses = FALSE
    /\ gt = {}
    /\ logged = "none"

TickIdle == ticks = <<>>

LateIdle == LocaleIdle /\ TickIdle

OtherIdle ==
    /\ FormatIdle /\ MixinIdle /\ FrameIdle /\ DeviceIdle /\ PrefsIdle
    /\ LateIdle

ExtIdle == CompareIdle /\ OtherIdle

(***************************************************************************)
(* Specification of splitpropchain on an arbitrary string.                 *)
(***************************************************************************)
InitPath ==
    /\ pc = "init"
    /\ propchainstring \in SeqUpTo(PathChars, MaxLen)
    /\ chain = <<>>
    /\ segments = <<>>
    /\ ValueIdle /\ ExtIdle

CallSplitpropchain ==
    /\ pc = "init"
    /\ chain' = splitpropchain(propchainstring)
    /\ pc' = "done"
    /\ UNCHANGED <<propchainstring, segments, valueVars, extVars>>

NextPath == CallSplitpropchain

SpecPath == InitPath /\ [][NextPath]_vars

(***************************************************************************)
(* Specification of splitpropchain on a dot-joined segment sequence.       *)
(***************************************************************************)
PlainSegments == SeqUpTo(PlainChars, MaxSegLen)

InitJoin ==
    /\ pc = "init"
    /\ segments \in SeqUpTo(PlainSegments, MaxSegs) \ {<<>>}
    /\ propchainstring = <<>>
    /\ chain = <<>>
    /\ ValueIdle /\ ExtIdle

CallJoinSplit ==
    /\ pc = "init"
    /\ propchainstring' = JoinDots(segments)
    /\ chain' = splitpropchain(propchainstring')
    /\ pc' = "done"
    /\ UNCHANGED <<segments, valueVars, extVars>>

NextJoin == CallJoinSplit

SpecJoin == InitJoin /\ [][NextJoin]_vars

(***************************************************************************)
(* Specification of get.                                                   *)
(***************************************************************************)
K_a == <<"a">>
K_b == <<"b">>
K_d == <<"d">>

GetChars == {"a", "b", "0", "."}

GetObjs ==
    { Undefined, Null, Num(5), Str(<<"a", "b">>), Obj(EmptyMap),
      Obj(K_a :> Obj(K_b :> Num(5))),
      Obj(K_a :> Null),
      Obj(K_a :> Str(<<"a", "b">>)),
      Obj(K_a :> Arr(<<Obj(K_b :> Num(5))>>)),
      Arr(<<Obj(K_a :> Num(5))>>) }

InitGet ==
    /\ pc = "init"
    /\ obj \in GetObjs
    /\ propchain \in SeqUpTo(GetChars, MaxLen)
    /\ ret = Pending
    /\ PathIdle /\ CastIdle /\ ExtractIdle /\ ExtIdle

CallGet ==
    /\ pc = "init"
    /\ ret' = get(obj, propchain)
    /\ pc' = "done"
    /\ UNCHANGED <<pathVars, obj, propchain, value, type, json, fndef, extVars>>

NextGet == CallGet

SpecGet == InitGet /\ [][NextGet]_vars

(***************************************************************************)
(* Specification of cast.                                                  *)
(***************************************************************************)
ValueChars == {"1", ",", " ", "a"}

LeafTypes ==
    {TString, TNumber, TBoolean, TDate, TMeasure, TCurrency, TEntity, TLocation}

CastTypes ==
    LeafTypes \cup {TArray(e) : e \in LeafTypes} \cup {TArray(TArray(TNumber))}

RawMaps ==
    { Obj(EmptyMap),
      Obj(K_value :> Num(5) @@ K_unit :> Str(<<"e", "u", "r">>)),
      Obj(K_value :> Str(<<"a">>) @@ K_display :> Str(<<"A">>)),
      Obj(K_x :> Num(10) @@ K_y :> Num(20)),
      Obj(K_latitude :> Num(20) @@ K_longitude :> Num(10)),
      Obj(K_lat :> Num(20) @@ K_lon :> Num(10) @@ K_display :> Str(<<"A">>)),
      Obj(K_x :> Num(10) @@ K_y :> Num(20)
          @@ K_latitude :> Num(1) @@ K_longitude :> Num(2)),
      Obj(K_x :> Num(10) @@ K_latitude :> Num(1) @@ K_longitude :> Num(2)) }

RawArrays ==
    {Arr(e) : e \in SeqUpTo({Num(1), Num(2), Str(<<"1">>), Null}, MaxArr)}

RawValues ==
    {Undefined, Null, Num(1), Bool(TRUE), Bool(FALSE)}
        \cup {Str(s) : s \in SeqUpTo(ValueChars, MaxStrLen)}
        \cup RawMaps \cup RawArrays

InitCast ==
    /\ pc = "init"
    /\ value \in RawValues
    /\ type \in CastTypes
    /\ ret = Pending
    /\ PathIdle /\ GetIdle /\ ExtractIdle /\ ExtIdle

CallCast ==
    /\ pc = "init"
    /\ ret' = cast(value, type)
    /\ pc' = "done"
    /\ UNCHANGED <<pathVars, obj, propchain, value, type, json, fndef, extVars>>

NextCast == CallCast

SpecCast == InitCast /\ [][NextCast]_vars

(***************************************************************************)
(* Specification of parseGenericResponse.                                  *)
(***************************************************************************)
Letters == <<"a", "b", "c", "e", "f", "g">>
ArgName(i) == <<Letters[i]>>

S_1 == Str(<<"1">>)

\* The elements of a raw response: no field, the field a, and a nested a
\* beside a numeric b.
Elements ==
    { Obj(EmptyMap),
      Obj(K_a :> S_1),
      Obj(K_a :> Obj(K_b :> S_1) @@ K_b :> Num(1)) }

OutputTypes ==
    {TString, TArray(TNumber), TDate, TMeasure, TCurrency, TEntity, TLocation}

P_ab == <<"a", ".", "b">>

\* The descriptors the i-th argument is drawn from: an input argument, an
\* output argument of every type read by its own name, and an output
\* argument read through the json_key "a.b".
ArgChoices(i) ==
    {[name |-> ArgName(i), is_input |-> TRUE, type |-> TString, json_key |-> NoKey]}
        \cup {[name |-> ArgName(i), is_input |-> FALSE, type |-> ty, json_key |-> NoKey]
                : ty \in OutputTypes}
        \cup {[name |-> ArgName(i), is_input |-> FALSE, type |-> ty,
               json_key |-> <<P_ab>>] : ty \in {TString, TCurrency}}

ArgLists ==
    UNION {{a \in [1..k -> UNION {ArgChoices(i) : i \in 1..k}] :
              \A i \in 1..k : a[i] \in ArgChoices(i)} : k \in 0..MaxArgs}

Signatures ==
    {[args |-> a, json_key |-> jk] : a \in ArgLists, jk \in {NoKey, <<K_d>>}}

Payloads ==
    {Null} \cup Elements \cup {Arr(e) : e \in SeqUpTo(Elements, MaxElems)}

Responses == Payloads \cup {Obj(K_d :> p) : p \in Payloads}

InitExtract ==
    /\ pc = "init"
    /\ json \in Responses
    /\ fndef \in Signatures
    /\ ret = Pending
    /\ PathIdle /\ GetIdle /\ CastIdle /\ ExtIdle

CallParseGenericResponse ==
    /\ pc = "init"
    /\ ret' = parseGenericResponse(json, fndef)
    /\ pc' = "done"
    /\ UNCHANGED <<pathVars, obj, propchain, value, type, json, fndef, extVars>>

NextExtract == CallParseGenericResponse

SpecExtract == InitExtract /\ [][NextExtract]_vars

\* C8: for every input string splitpropchain returns the segments of the
\* one-pass reference scanner with a single escape-pending flag.
C8_MatchesReferenceScanner ==
    pc = "done" => chain = RefScan(propchainstring, 1, <<>>, FALSE, <<>>)

\* A backslash, an ordinary character and then a dot: the escape only
\* affects the character right after the backslash, so the dot splits.
C8_Witness ==
    /\ pc = "done"
    /\ propchainstring = <<"\\", "a", ".", "b">>
    /\ chain = << <<"a">>, <<"b">> >>

\* C9: splitpropchain never returns an empty sequence, and the number of
\* segments is one more than the number of unescaped dots.
C9_SegmentCount ==
    pc = "done" =>
        /\ Len(chain) >= 1
        /\ Len(chain) = 1 + Cardinality(UnescapedDots(propchainstring))

\* A string ending in a dot yields a last, empty segment.
C9_Witness ==
    /\ pc = "done"
    /\ propchainstring = <<"a", ".">>
    /\ chain = << <<"a">>, <<>> >>

\* C10: joining segments free of dots and backslashes with dots and
\* parsing the result yields the original segments, empty ones included.
C10_RoundTrip ==
    pc = "done" => chain = segments

\* Three segments, the middle one empty.
C10_Witness ==
    /\ pc = "done"
    /\ segments = << <<"a">>, <<>>, <<"b">> >>
    /\ propchainstring = <<"a", ".", ".", "b">>
    /\ chain = segments

(***************************************************************************)
(* Properties of get, cast and parseGenericResponse.                       *)
(***************************************************************************)

\* The names of the output arguments of a signature.
OutputArgs(fn) == {i \in 1..Len(fn.args) : ~fn.args[i].is_input}
OutputNames(fn) == {fn.args[i].name : i \in OutputArgs(fn)}

\* The raw response after the envelope unwrapping, for the envelopes of the
\* model: the value under d of a map, the response itself without annotation.
HasEnvelope == fndef.json_key = <<K_d>> /\ json.t = "object" /\ K_d \in DOMAIN json.m
NullAfterUnwrap ==
    \/ fndef.json_key = NoKey /\ json = Null
    \/ HasEnvelope /\ json.m[K_d] = Null

\* Every segment of the path names an own property of the value reached.
RECURSIVE Resolves(_, _, _)
Resolves(v, props, k) ==
    \/ k > Len(props)
    \/ HasOwn(v, props[k]) /\ Resolves(GetProp(v, props[k]), props, k + 1)

\* The element lacks the raw field of the argument.
Lacks(elem, argdef) ==
    IF argdef.json_key = NoKey THEN ~HasOwn(elem, argdef.name)
    ELSE ~Resolves(elem, RefScan(argdef.json_key[1], 1, <<>>, FALSE, <<>>), 1)

\* C1: a response that is a sequence of N elements gives exactly N records,
\* in the order of the elements, each with exactly the output argument
\* names as its keys, whichever raw fields the elements hold.
C1_ShapeInvariant ==
    (pc = "done" /\ fndef.json_key = NoKey /\ isArray(json)) =>
        /\ ret.t = "array"
        /\ Len(ret.e) = Len(json.e)
        /\ \A i \in 1..Len(ret.e) :
              /\ ret.e[i].t = "object"
              /\ DOMAIN ret.e[i].m = OutputNames(fndef)
              /\ ret.e[i] = extractOne(json.e[i], fndef)

\* C2: when a response element lacks the raw field of an output argument,
\* extract does not fail and the record holds undefined under that name,
\* for every declared type.  Stated on a single-map response none of whose
\* output fields is present.
C2_MissingFieldUndefined ==
    (/\ pc = "done" /\ fndef.json_key = NoKey /\ json.t = "object"
     /\ \A i \in OutputArgs(fndef) : Lacks(json, fndef.args[i])) =>
        /\ ret.t = "array"
        /\ Len(ret.e) = 1
        /\ \A i \in OutputArgs(fndef) : ret.e[1].m[fndef.args[i].name] = Undefined

\* The (type, value) pairs of the coercion table.
HasKeys(v, keys) == v.t = "object" /\ keys \subseteq DOMAIN v.m
Listed(v, ty) ==
    \/ ty.k = "Array" /\ v.t \in {"string", "array"}
    \/ ty.k = "Date"
    \/ ty.k \in {"Number", "Measure"} /\ v.t = "string"
    \/ ty.k = "Currency" /\ (v.t \in {"number", "string"} \/ HasKeys(v, {K_value, K_unit}))
    \/ ty.k = "Entity" /\ (v.t = "string" \/ HasKeys(v, {K_value}))
    \/ ty.k = "Location" /\ \/ HasKeys(v, {K_x, K_y})
                            \/ HasKeys(v, {K_latitude, K_longitude})
                            \/ HasKeys(v, {K_lat, K_lon})

\* C3: cast is total: it never raises, and a (type, value) pair outside the
\* coercion table returns the raw value unchanged.
C3_CastTotal ==
    pc = "done" =>
        /\ ret # TypeError
        /\ (~Listed(value, type) => ret = value)

\* The result C4 states: the value at the path, undefined as soon as a
\* value that is not a map or a sequence is reached with segments left.
RECURSIVE WalkOrUndefined(_, _, _)
WalkOrUndefined(v, props, k) ==
    IF k > Len(props) THEN v
    ELSE IF v.t \in {"object", "array"}
         THEN WalkOrUndefined(GetProp(v, props[k]), props, k + 1)
         ELSE Undefined

\* C4: get never raises on a nested value (a map or a sequence): it returns
\* undefined when an intermediate value is null, undefined or a primitive
\* and segments remain, and the value at the path when every segment
\* resolves.
C4_GetNeverRaises ==
    (pc = "done" /\ obj.t \in {"object", "array"}) =>
        /\ ret # TypeError
        /\ ret = WalkOrUndefined(obj, RefScan(propchain, 1, <<>>, FALSE, <<>>), 1)

\* C5 as stated: a response that is null after the envelope unwrapping
\* makes extract raise, for every signature.
C5_NullAlwaysFails ==
    (pc = "done" /\ NullAfterUnwrap) => ret = TypeError

\* C5 as amended: a response that is null after the envelope unwrapping
\* makes extract raise when the signature has an output argument; with no
\* output argument extract returns one empty record.
C5_NullFailsWithOutputs ==
    (pc = "done" /\ NullAfterUnwrap) =>
        IF OutputNames(fndef) = {} THEN ret = Arr(<<Obj(EmptyMap)>>)
        ELSE ret = TypeError

\* A null payload under the envelope key and one output argument: raised.
C5_Witness ==
    /\ pc = "done"
    /\ json = Obj(K_d :> Null)
    /\ fndef.json_key = <<K_d>>
    /\ OutputNames(fndef) = {K_a}
    /\ ret = TypeError

\* C6: with a top-level json_key extract first takes the value at that
\* path and only then tells a sequence from a single object and iterates:
\* the outcome is that of the unwrapped payload under the signature without
\* the annotation, with one record per payload element; without the
\* annotation the response is used as given.
C6_UnwrapFirst ==
    pc = "done" =>
        /\ HasEnvelope =>
              /\ ret = parseGenericResponse(json.m[K_d],
                                            [fndef EXCEPT !.json_key = NoKey])
              /\ (isArray(json.m[K_d]) /\ ret # TypeError) =>
                    /\ Len(ret.e) = Len(json.m[K_d].e)
                    /\ \A i \in 1..Len(ret.e) :
                          ret.e[i] = extractOne(json.m[K_d].e[i], fndef)
        /\ fndef.json_key = NoKey =>
              ret = IF isArray(json) THEN extractEach(json.e, fndef)
                    ELSE extractSingle(json, fndef)

\* An envelope map whose payload is a sequence of two elements: two
\* records, built from the elements of the payload.
C6_Witness ==
    /\ pc = "done"
    /\ fndef.json_key = <<K_d>>
    /\ json = Obj(K_d :> Arr(<<Obj(K_a :> S_1), Obj(EmptyMap)>>))
    /\ fndef.args = <<[name |-> K_a, is_input |-> FALSE, type |-> TString,
                       json_key |-> NoKey]>>
    /\ ret = Arr(<<Obj(K_a :> S_1), Obj(K_a :> Undefined)>>)

\* C7: a response that is a single map gives exactly one record, built from
\* that map; an empty sequence gives an empty result.
C7_SingleObjectWrapped ==
    (pc = "done" /\ fndef.json_key = NoKey) =>
        /\ json.t = "object" =>
              /\ ret.t = "array"
              /\ Len(ret.e) = 1
              /\ ret.e[1].t = "object"
              /\ DOMAIN ret.e[1].m = OutputNames(fndef)
        /\ json = Arr(<<>>) => ret = Arr(<<>>)

(***************************************************************************)
(* Specification of splitpropchain on a string and on the same string      *)
(* followed by one backslash.                                              *)
(***************************************************************************)
InitTrail ==
    /\ pc = "init"
    /\ propchainstring \in SeqUpTo(PathChars, MaxLen)
    /\ chain = <<>>
    /\ segments = <<>>
    /\ ValueIdle
    /\ joined = <<>>
    /\ ret2 = Pending
    /\ OtherIdle

CallSplitPlain ==
    /\ pc = "init"
    /\ chain' = splitpropchain(propchainstring)
    /\ pc' = "plain"
    /\ UNCHANGED <<propchainstring, segments, valueVars, extVars>>

CallSplitTrailing ==
    /\ pc = "plain"
    /\ ret2' = splitpropchain(Append(propchainstring, "\\"))
    /\ pc' = "done"
    /\ UNCHANGED <<pathVars, valueVars, joined, otherVars>>

NextTrail == CallSplitPlain \/ CallSplitTrailing

SpecTrail == InitTrail /\ [][NextTrail]_vars

\* The string ends in an unescaped backslash: an escape is pending.
EndsPending(s) == BackslashRun(s, Len(s) + 1) % 2 = 1

\* C11: a trailing unescaped backslash is consumed with no visible effect:
\* for a string that does not end in a pending escape, the string followed
\* by one backslash parses to the same segments as the string.
C11_TrailingBackslashIgnored ==
    (pc = "done" /\ ~EndsPending(propchainstring)) => ret2 = chain

\* A backslash after an escaped ordinary character and after a dot.
C11_Witness ==
    /\ pc = "done"
    /\ propchainstring = <<"\\", "a", ".">>
    /\ chain = << <<"a">>, <<>> >>
    /\ ret2 = chain

(***************************************************************************)
(* Specification of cast on a sequence of numbers and on its comma-joined  *)
(* string form.                                                            *)
(***************************************************************************)

\* String(n) of a non-negative integer: its decimal digits.
RECURSIVE DigitsOf(_)
DigitsOf(n) ==
    IF n < 10 THEN <<DigitChars[n + 1]>>
    ELSE Append(DigitsOf(n \div 10), DigitChars[(n % 10) + 1])

\* Array.prototype.join(sep) of a sequence of numbers
RECURSIVE joinNumbers(_, _)
joinNumbers(elems, sep) ==
    IF Len(elems) = 0 THEN <<>>
    ELSE IF Len(elems) = 1 THEN DigitsOf(elems[1].n)
    ELSE DigitsOf(elems[1].n) \o sep \o joinNumbers(Tail(elems), sep)

Numbers == {Num(0), Num(1), Num(2), Num(10), Num(12)}

\* A comma followed by optional white space
Separators == {<<",">>, <<",", " ">>}

InitArray ==
    /\ pc = "init"
    /\ value \in {Arr(el) : el \in SeqUpTo(Numbers, MaxArr)}
    /\ type = TArray(TNumber)
    /\ ret = Pending
    /\ joined = <<>>
    /\ ret2 = Pending
    /\ PathIdle /\ GetIdle /\ ExtractIdle /\ OtherIdle

CallCastSequence ==
    /\ pc = "init"
    /\ ret' = cast(value, type)
    /\ pc' = "plain"
    /\ UNCHANGED <<pathVars, obj, propchain, value, type, json, fndef, extVars>>

CallCastJoined ==
    /\ pc = "plain"
    /\ \E sep \in Separators : joined' = joinNumbers(value.e, sep)
    /\ ret2' = cast(Str(joined'), type)
    /\ pc' = "done"
    /\ UNCHANGED <<pathVars, valueVars, otherVars>>

NextArray == CallCastSequence \/ CallCastJoined

SpecArray == InitArray /\ [][NextArray]_vars

\* C12: coercing a sequence of numbers against ArrayOf(Number) gives the
\* same result as coercing its comma-joined string form, and order and
\* length are preserved.
C12_ArrayStringEquivalent ==
    pc = "done" =>
        /\ ret2 = ret
        /\ ret.t = "array"
        /\ Len(ret.e) = Len(value.e)
        /\ \A i \in 1..Len(value.e) : ret.e[i] = value.e[i]

\* The value under a key of a map, undefined when the map lacks the key.
At(v, key) == IF key \in DOMAIN v.m THEN v.m[key] ELSE Undefined

\* C13: for a Location type and a map value the geo-point is (y, x) when
\* the map has x and y, else (latitude, longitude) when it has both, else
\* (lat, lon); x/y wins over latitude/longitude, and {x:10,y:20} and
\* {latitude:20,longitude:10} give the same point.
C13_LocationPrecedence ==
    (pc = "done" /\ type = TLocation /\ value.t = "object") =>
        /\ ret.t = "Location"
        /\ IF {K_x, K_y} \subseteq DOMAIN value.m
           THEN ret.lat = value.m[K_y] /\ ret.lon = value.m[K_x]
           ELSE IF {K_latitude, K_longitude} \subseteq DOMAIN value.m
           THEN ret.lat = value.m[K_latitude] /\ ret.lon = value.m[K_longitude]
           ELSE ret.lat = At(value, K_lat) /\ ret.lon = At(value, K_lon)
        /\ ret.display = At(value, K_display)
        /\ value \in {Obj(K_x :> Num(10) @@ K_y :> Num(20)),
                      Obj(K_latitude :> Num(20) @@ K_longitude :> Num(10))}
              => ret = Location(Num(20), Num(10), Undefined)

\* A map that carries x/y and latitude/longitude: the point is (y, x).
C13_Witness ==
    /\ pc = "done"
    /\ type = TLocation
    /\ value = Obj(K_x :> Num(10) @@ K_y :> Num(20)
                   @@ K_latitude :> Num(1) @@ K_longitude :> Num(2))
    /\ ret = Location(Num(20), Num(10), Undefined)

\* C14: for a Currency type a number becomes that amount in 'usd', a
\* string the parsed number in 'usd', and a map with value and unit the
\* value in the unit of the map, never the default unit.
C14_CurrencyDefaulting ==
    (pc = "done" /\ type = TCurrency) =>
        /\ value.t = "number" => ret = Currency(value, Str(S_usd))
        /\ value.t = "string" =>
              /\ ret.t = "Currency"
              /\ ret.unit = Str(S_usd)
              /\ ret.value = parseFloat(value.s)
              /\ ret.value.t \in {"number", "NaN"}
              /\ value.s = <<"1", "1">> => ret.value = Num(11)
        /\ HasKeys(value, {K_value, K_unit}) =>
              ret = Currency(value.m[K_value], value.m[K_unit])

\* A map with an explicit unit keeps it.
C14_Witness ==
    /\ pc = "done"
    /\ type = TCurrency
    /\ value = Obj(K_value :> Num(5) @@ K_unit :> Str(<<"e", "u", "r">>))
    /\ ret = Currency(Num(5), Str(<<"e", "u", "r">>))

(***************************************************************************)
(* formatString                                                            *)
(*                                                                         *)
(* A template is the sequence of its chunks, as string-interp reads it: a  *)
(* chunk is literal text [lit |-> chars] or a placeholder [param |-> name] *)
(* written ${name}.  The scopes map names to strings.                      *)
(***************************************************************************)
MaxChunks == 2    \* most chunks of a template

Lit(chars) == [lit |-> chars]
Param(name) == [param |-> name]
IsParam(chunk) == DOMAIN chunk = {"param"}

\* The truth value a JavaScript condition gives a value.
Truthy(v) ==
    CASE v.t \in {"undefined", "null", "NaN"} -> FALSE
      [] v.t = "string" -> v.s # <<>>
      [] v.t = "number" -> v.n # 0
      [] v.t = "boolean" -> v.b
      [] OTHER -> TRUE

\* a || b
OrElse(a, b) == IF Truthy(a) THEN a ELSE b

\* The callback given to interpolate:
\*   if (functionParams) return functionParams[param] || deviceParams[param];
\*   else return deviceParams[param];
resolveParam_deviceFirst(param, dp, fp) ==
    IF Truthy(fp) THEN OrElse(GetProp(dp, param), GetProp(fp, param))
    ELSE GetProp(dp, param)
resolveParam(param, dp, fp) ==
    IF Truthy(fp) THEN OrElse(GetProp(fp, param), GetProp(dp, param))
    ELSE GetProp(dp, param)

InterpError == [t |-> "Error"]

\* The token of a placeholder in the template text
Token(name) == <<"$", "{">> \o name \o <<"}">>

\* string-interp: the text one chunk becomes, given the value the callback
\* returned for it.  A value that is undefined or null is missing: with
\* failIfMissing the interpolation fails, without it the placeholder is
\* left as is or replaced by the empty string.
chunkText(chunk, v, failIfMissing, repl) ==
    IF ~IsParam(chunk) THEN Str(chunk.lit)
    ELSE IF v.t \in {"undefined", "null"}
         THEN IF failIfMissing THEN InterpError
              ELSE IF repl = "keep" THEN Str(Token(chunk.param)) ELSE Str(<<>>)
    ELSE v

RECURSIVE concatTexts(_, _)
concatTexts(texts, k) ==
    IF k > Len(texts) THEN <<>> ELSE texts[k].s \o concatTexts(texts, k + 1)

\* string-interp: interpolate(template, callback, { failIfMissing }), the
\* callback's answers given as vals
interpolate(tpl, vals, failIfMissing, repl) ==
    LET texts == [i \in 1..Len(tpl) |-> chunkText(tpl[i], vals[i], failIfMissing, repl)]
    IN  IF \E i \in 1..Len(tpl) : texts[i] = InterpError THEN InterpError
        ELSE Str(concatTexts(texts, 1))

\* The answers of the callback for the placeholders of the template
callbackValues(tpl, dp, fp) ==
    [i \in 1..Len(tpl) |->
        IF IsParam(tpl[i]) THEN resolveParam(tpl[i].param, dp, fp) ELSE Undefined]

\* The variant that leaves failIfMissing at its default, true.
formatString_strict(tpl, dp, fp, repl) ==
    interpolate(tpl, callbackValues(tpl, dp, fp), TRUE, repl)

\* formatString(url, deviceParams, functionParams): failIfMissing: false
formatString(tpl, dp, fp, repl) ==
    interpolate(tpl, callbackValues(tpl, dp, fp), FALSE, repl)

(***************************************************************************)
(* Specification of formatString.                                          *)
(***************************************************************************)
N_x == <<"x">>
N_y == <<"y">>
ParamNames == {N_x, N_y}

Chunks == {Lit(<<"u">>), Param(N_x), Param(N_y)}

\* The maps from some of the names to the given strings
Scopes(strings) ==
    UNION {{Obj(m) : m \in [D -> {Str(s) : s \in strings}]} : D \in SUBSET ParamNames}

InitFormat ==
    /\ pc = "init"
    /\ url \in SeqUpTo(Chunks, MaxChunks)
    /\ deviceParams \in Scopes({<<>>, <<"d">>})
    /\ functionParams \in {Undefined} \cup Scopes({<<>>, <<"f">>})
    /\ nullReplacement \in {"keep", "empty"}
    /\ ret = Pending
    /\ PathIdle /\ GetIdle /\ CastIdle /\ ExtractIdle /\ CompareIdle
    /\ MixinIdle /\ FrameIdle /\ DeviceIdle /\ PrefsIdle
    /\ LateIdle

CallFormatString ==
    /\ pc = "init"
    /\ ret' = formatString(url, deviceParams, functionParams, nullReplacement)
    /\ pc' = "done"
    /\ UNCHANGED <<pathVars, obj, propchain, value, type, json, fndef, joined,
                   ret2, otherVars>>

NextFormat == CallFormatString

SpecFormat == InitFormat /\ [][NextFormat]_vars

\* The text a missing value is replaced by
MissingText(name) == IF nullReplacement = "keep" THEN Token(name) ELSE <<>>

\* The text of the template when the placeholder name stands for the
\* value chosen(name), a missing value when that is undefined.
RECURSIVE Rendered(_, _, _)
Rendered(tpl, k, chosen) ==
    IF k > Len(tpl) THEN <<>>
    ELSE (IF ~IsParam(tpl[k]) THEN tpl[k].lit
          ELSE IF chosen[tpl[k].param] = Undefined THEN MissingText(tpl[k].param)
          ELSE chosen[tpl[k].param].s)
         \o Rendered(tpl, k + 1, chosen)

HasFunctionParams == functionParams # Undefined
InFunctionParams(name) == HasFunctionParams /\ name \in DOMAIN functionParams.m
InDeviceParams(name) == name \in DOMAIN deviceParams.m

\* C15 as stated: a name that functionParams maps to a string, whatever
\* the string, takes the functionParams value; deviceParams is used for the
\* other names and when functionParams is not supplied.
C15_AnyFunctionParamWins ==
    pc = "done" =>
        ret = Str(Rendered(url, 1,
                  [n \in ParamNames |->
                      IF InFunctionParams(n) THEN functionParams.m[n]
                      ELSE At(deviceParams, n)]))

\* C15 as amended: a name that functionParams maps to a non-empty string
\* takes the functionParams value; a name that functionParams lacks or maps
\* to the empty string takes the deviceParams value, when there is one; and
\* without functionParams the deviceParams value is used.
C15_NonEmptyFunctionParamWins ==
    pc = "done" =>
        ret = Str(Rendered(url, 1,
                  [n \in ParamNames |->
                      IF InFunctionParams(n) /\ functionParams.m[n] # Str(<<>>)
                      THEN functionParams.m[n]
                      ELSE At(deviceParams, n)]))

\* Both scopes hold x: the functionParams value is used.
C15_Witness ==
    /\ pc = "done"
    /\ url = <<Param(N_x)>>
    /\ deviceParams = Obj(N_x :> Str(<<"d">>))
    /\ functionParams = Obj(N_x :> Str(<<"f">>))
    /\ ret = Str(<<"f">>)

\* C16: a placeholder whose name is in neither scope does not make
\* formatString raise: the result is a string in which that placeholder is
\* left as is or replaced by the empty string, and the other placeholders
\* are resolved.
C16_UnresolvedTolerated ==
    (pc = "done" /\ \E i \in 1..Len(url) :
          IsParam(url[i]) /\ ~InFunctionParams(url[i].param)
              /\ ~InDeviceParams(url[i].param)) =>
        /\ ret.t = "string"
        /\ \E kept \in SUBSET ParamNames :
              ret.s = Rendered(url, 1,
                  [n \in ParamNames |->
                      IF ~InFunctionParams(n) /\ ~InDeviceParams(n)
                      THEN (IF n \in kept THEN Str(Token(n)) ELSE Str(<<>>))
                      ELSE resolveParam(n, deviceParams, functionParams)])

\* y is in no scope and x is: x is resolved and y is left or dropped.
C16_Witness ==
    /\ pc = "done"
    /\ url = <<Param(N_y), Param(N_x)>>
    /\ deviceParams = Obj(N_x :> Str(<<"d">>))
    /\ functionParams = Undefined
    /\ ret \in {Str(<<"$", "{", "y", "}", "d">>), Str(<<"d">>)}

(***************************************************************************)
(* getMixinArgs and findMixinArg                                           *)
(*                                                                         *)
(* A mixin block is [in_params |-> pairs], each pair [name, value]; a      *)
(* value is a ThingTalk value expression (a kind and its payload), and     *)
(* toJS evaluates it to the native value.                                  *)
(***************************************************************************)
MaxPairs == 3     \* most pairs of a mixin block

\* in_param.value.toJS()
toJS(expr) ==
    CASE expr.kind = "String" -> Str(expr.s)
      [] expr.kind = "Number" -> Num(expr.n)
      [] OTHER -> Undefined

\* for (let in_param of mixin.in_params) args[in_param.name] = ...toJS();
RECURSIVE mixinArgsLoop(_, _, _)
mixinArgsLoop(in_params, k, args) ==
    IF k > Len(in_params) THEN Obj(args)
    ELSE mixinArgsLoop(in_params, k + 1,
                       Put(args, in_params[k].name, toJS(in_params[k].value)))

getMixinArgs(mx) == mixinArgsLoop(mx.in_params, 1, EmptyMap)

\* The variant that keeps looking after a match and returns the last one.
RECURSIVE findLast(_, _, _, _)
findLast(in_params, name, k, found) ==
    IF k > Len(in_params) THEN found
    ELSE findLast(in_params, name, k + 1,
                  IF in_params[k].name = name THEN toJS(in_params[k].value)
                  ELSE found)

findMixinArg_last(mx, name) == findLast(mx.in_params, name, 1, Undefined)

\* for (let in_param of mixin.in_params)
\*     if (in_param.name === arg) return in_param.value.toJS();
\* return undefined;
RECURSIVE findLoop(_, _, _)
findLoop(in_params, name, k) ==
    IF k > Len(in_params) THEN Undefined
    ELSE IF in_params[k].name = name THEN toJS(in_params[k].value)
    ELSE findLoop(in_params, name, k + 1)

findMixinArg(mx, name) == findLoop(mx.in_params, name, 1)

(***************************************************************************)
(* Specification of findMixinArg followed by getMixinArgs on one block.    *)
(***************************************************************************)
MixinNames == {K_a, K_b}

MixinValues ==
    {[kind |-> "Number", n |-> 1], [kind |-> "Number", n |-> 2],
     [kind |-> "String", s |-> <<"1">>]}

MixinPairs == {[name |-> n, value |-> v] : n \in MixinNames, v \in MixinValues}

InitMixin ==
    /\ pc = "init"
    /\ mixin \in {[in_params |-> ps] : ps \in SeqUpTo(MixinPairs, MaxPairs)}
    /\ arg \in MixinNames \cup {<<"c">>}
    /\ ret = Pending
    /\ ret2 = Pending
    /\ joined = <<>>
    /\ PathIdle /\ GetIdle /\ CastIdle /\ ExtractIdle /\ FormatIdle
    /\ FrameIdle /\ DeviceIdle /\ PrefsIdle
    /\ LateIdle

CallFindMixinArg ==
    /\ pc = "init"
    /\ ret' = findMixinArg(mixin, arg)
    /\ pc' = "plain"
    /\ UNCHANGED <<pathVars, obj, propchain, value, type, json, fndef, joined,
                   ret2, otherVars>>

CallGetMixinArgs ==
    /\ pc = "plain"
    /\ ret2' = getMixinArgs(mixin)
    /\ pc' = "done"
    /\ UNCHANGED <<pathVars, valueVars, joined, otherVars>>

NextMixin == CallFindMixinArg \/ CallGetMixinArgs

SpecMixin == InitMixin /\ [][NextMixin]_vars

\* The positions of the pairs of the block with the given name
PairsNamed(name) ==
    {k \in 1..Len(mixin.in_params) : mixin.in_params[k].name = name}

Max(S) == CHOOSE x \in S : \A y \in S : x >= y

\* The native value of a value expression of the model
Native(expr) == IF expr.kind = "Number" THEN Num(expr.n) ELSE Str(expr.s)

\* C17: findMixinArg returns the evaluated value of the first pair with
\* the name in declaration order, undefined when there is none;
\* getMixinArgs maps every name of the block, and no other, to the
\* evaluated value of the last pair with that name.
C17_FirstMatchLastWrite ==
    pc = "done" =>
        /\ ret = IF PairsNamed(arg) = {} THEN Undefined
                 ELSE Native(mixin.in_params[Min(PairsNamed(arg))].value)
        /\ ret2.t = "object"
        /\ DOMAIN ret2.m =
              {mixin.in_params[k].name : k \in 1..Len(mixin.in_params)}
        /\ \A n \in DOMAIN ret2.m :
              ret2.m[n] = Native(mixin.in_params[Max(PairsNamed(n))].value)

\* The block [(a, 1), (a, 2)]: the lookup gives 1, the full map {a: 2}.
C17_Witness ==
    /\ pc = "done"
    /\ mixin = [in_params |-> <<[name |-> K_a, value |-> [kind |-> "Number", n |-> 1]],
                                [name |-> K_a, value |-> [kind |-> "Number", n |-> 2]]>>]
    /\ arg = K_a
    /\ ret = Num(1)
    /\ ret2 = Obj(K_a :> Num(2))

(***************************************************************************)
(* The operations on caller-owned structures.                              *)
(*                                                                         *)
(* The elements of a raw response are objects of a heap, a sequence of     *)
(* objects indexed by address, and the response holds references to them,  *)
(* so that a write into an element and the identity of a returned record   *)
(* are visible.  The other inputs are values, which the code only reads.   *)
(***************************************************************************)
MaxCalls == 3     \* most calls made on one set of inputs

Ref(a) == [t |-> "ref", a |-> a]
Deref(hp, v) == IF v.t = "ref" THEN hp[v.a] ELSE v

\* The variant that converts the element in place: extracted = result.
newObject_inPlace(hp, result) ==
    IF result.t = "ref" THEN result.a ELSE Len(hp) + 1
\* let extracted = {}: a new object, at an address no object has yet.
newObject(hp, result) == Len(hp) + 1

\* extracted[arg.name] = ...: the writes go to the object at the address.
store(hp, at, rec) ==
    IF at > Len(hp) THEN Append(hp, rec) ELSE [hp EXCEPT ![at] = rec]

\* return extracted: the heap with the record at its address and the
\* reference returned, or the raise (the unfinished record is unreachable
\* and left out).
extractedAt(hp, at, rec) ==
    IF rec = TypeError THEN [mem |-> hp, res |-> TypeError]
    ELSE [mem |-> store(hp, at, rec), res |-> Ref(at)]

\* extractOne(result) on the heap
extractOneAt(hp, result, fn) ==
    extractedAt(hp, newObject(hp, result), extractOne(Deref(hp, result), fn))

RECURSIVE mapExtractOne(_, _, _, _, _)

\* json.map(extractOne) after element k gave r
mapStep(r, elems, fn, k, out) ==
    IF r.res = TypeError THEN r
    ELSE mapExtractOne(r.mem, elems, fn, k + 1, Append(out, r.res))

\* json.map(extractOne) from element k on
mapExtractOne(hp, elems, fn, k, out) ==
    IF k > Len(elems) THEN [mem |-> hp, res |-> Arr(out)]
    ELSE mapStep(extractOneAt(hp, elems[k], fn), elems, fn, k, out)

\* [extractOne(json)]
wrapSingle(r) ==
    IF r.res = TypeError THEN r ELSE [mem |-> r.mem, res |-> Arr(<<r.res>>)]

\* if (Array.isArray(json)) ... else ...
parsePayloadAt(hp, payload, fn) ==
    IF payload = TypeError THEN [mem |-> hp, res |-> TypeError]
    ELSE IF isArray(payload) THEN mapExtractOne(hp, payload.e, fn, 1, <<>>)
    ELSE wrapSingle(extractOneAt(hp, payload, fn))

\* parseGenericResponse(json, fndef) on the heap
parseGenericResponseAt(hp, js, fn) == parsePayloadAt(hp, unwrap(js, fn), fn)

\* What the caller reads through a result of parseGenericResponse
Content(hp, r) ==
    IF r = TypeError THEN TypeError
    ELSE Arr([i \in 1..Len(r.e) |-> hp[r.e[i].a]])

OpNames ==
    {"splitpropchain", "get", "cast", "parseGenericResponse", "formatString",
     "getMixinArgs", "findMixinArg"}

\* The number of calls made so far
Calls ==
    Len(results["splitpropchain"]) + Len(results["get"]) + Len(results["cast"])
    + Len(results["parseGenericResponse"]) + Len(results["formatString"])
    + Len(results["getMixinArgs"]) + Len(results["findMixinArg"])

Logged(op, r) == [results EXCEPT ![op] = Append(@, r)]

FrameArg(ty) ==
    [name |-> K_a, is_input |-> FALSE, type |-> ty, json_key |-> NoKey]

\* A signature that converts the field a, one whose conversion raises on
\* an element without it, and one that reads the response through d.
FrameSignatures ==
    { [args |-> <<FrameArg(TMeasure)>>, json_key |-> NoKey],
      [args |-> <<FrameArg(TCurrency)>>, json_key |-> NoKey],
      [args |-> <<>>, json_key |-> <<K_d>>] }

\* The objects a raw response refers to
FrameObjects == {Obj(EmptyMap), Obj(K_a :> S_1)}

FramePair(n) == [name |-> K_a, value |-> [kind |-> "Number", n |-> n]]

(***************************************************************************)
(* Specification of any sequence of calls of the seven operations on one   *)
(* set of inputs.                                                          *)
(***************************************************************************)
InitFrame ==
    /\ pc = "init"
    /\ heap \in {<<>>} \cup {<<o>> : o \in FrameObjects}
                 \cup {<<o, p>> : o \in FrameObjects, p \in FrameObjects}
    /\ json \in {Arr(refs) :
                   refs \in SeqUpTo({Ref(a) : a \in 1..Len(heap)}, MaxElems)}
    /\ fndef \in FrameSignatures
    /\ propchainstring = <<"a", "\\", ".", "b">>
    /\ chain = <<>>
    /\ segments = <<>>
    /\ obj = Obj(K_a :> Obj(K_b :> Num(5)))
    /\ propchain = P_ab
    /\ value = Arr(<<S_1>>)
    /\ type = TArray(TNumber)
    /\ url = <<Param(N_x), Lit(<<"u">>)>>
    /\ deviceParams = Obj(N_x :> Str(<<"d">>))
    /\ functionParams = Obj(N_x :> Str(<<"f">>))
    /\ nullReplacement = "keep"
    /\ mixin = [in_params |-> <<FramePair(1), FramePair(2)>>]
    /\ arg = K_a
    /\ ret = Pending
    /\ joined = <<>>
    /\ ret2 = Pending
    /\ records = <<>>
    /\ known = Len(heap)
    /\ results = [op \in OpNames |-> <<>>]
    /\ before = [heap |-> heap, json |-> json, fndef |-> fndef,
                 deviceParams |-> deviceParams,
                 functionParams |-> functionParams, mixin |-> mixin]
    /\ DeviceIdle /\ PrefsIdle
    /\ LateIdle

\* What no operation writes
frameRest ==
    <<pc, pathVars, valueVars, joined, ret2, formatVars, mixinVars, before,
      deviceVars, prefsVars,
      lateVars>>

FrameSplitpropchain ==
    /\ Calls < MaxCalls
    /\ results' = Logged("splitpropchain",
                         [t |-> "chain", c |-> splitpropchain(propchainstring)])
    /\ UNCHANGED <<frameRest, heap, records, known>>

FrameGet ==
    /\ Calls < MaxCalls
    /\ results' = Logged("get", get(obj, propchain))
    /\ UNCHANGED <<frameRest, heap, records, known>>

FrameCast ==
    /\ Calls < MaxCalls
    /\ results' = Logged("cast", cast(value, type))
    /\ UNCHANGED <<frameRest, heap, records, known>>

\* The call returns r: the heap it leaves and what the caller holds
Returned(r) ==
    /\ heap' = r.mem
    /\ known' = Len(heap)
    /\ records' = IF r.res = TypeError THEN <<>>
                  ELSE [i \in 1..Len(r.res.e) |-> r.res.e[i].a]
    /\ results' = Logged("parseGenericResponse", Content(r.mem, r.res))

FrameParseGenericResponse ==
    /\ Calls < MaxCalls
    /\ Returned(parseGenericResponseAt(heap, json, fndef))
    /\ UNCHANGED frameRest

FrameFormatString ==
    /\ Calls < MaxCalls
    /\ results' = Logged("formatString",
                         formatString(url, deviceParams, functionParams,
                                      nullReplacement))
    /\ UNCHANGED <<frameRest, heap, records, known>>

FrameGetMixinArgs ==
    /\ Calls < MaxCalls
    /\ results' = Logged("getMixinArgs", getMixinArgs(mixin))
    /\ UNCHANGED <<frameRest, heap, records, known>>

FrameFindMixinArg ==
    /\ Calls < MaxCalls
    /\ results' = Logged("findMixinArg", findMixinArg(mixin, arg))
    /\ UNCHANGED <<frameRest, heap, records, known>>

NextFrame ==
    \/ FrameSplitpropchain
    \/ FrameGet
    \/ FrameCast
    \/ FrameParseGenericResponse
    \/ FrameFormatString
    \/ FrameGetMixinArgs
    \/ FrameFindMixinArg

SpecFrame == InitFrame /\ [][NextFrame]_vars

\* C18: after any sequence of calls of the seven operations the objects
\* of the raw response, the response, the signature, the scopes and the
\* mixin block are as they were before the calls; every call of an
\* operation gives the result its first call gave; and the records
\* returned by parseGenericResponse are objects that did not exist before
\* the call, each distinct from the others.
C18_InputsKeptRecordsFresh ==
    /\ SubSeq(heap, 1, Len(before.heap)) = before.heap
    /\ json = before.json
    /\ fndef = before.fndef
    /\ deviceParams = before.deviceParams
    /\ functionParams = before.functionParams
    /\ mixin = before.mixin
    /\ \A op \in OpNames : \A i \in 1..Len(results[op]) :
          results[op][i] = results[op][1]
    /\ \A i \in 1..Len(records) :
          /\ records[i] > known
          /\ \A j \in 1..Len(records) : i # j => records[i] # records[j]

\* Two calls of parseGenericResponse on a response that holds the same
\* object twice, whose field the declared type converts, and a call of
\* formatString: two new records, the object as it was.
C18_Witness ==
    /\ Len(results["parseGenericResponse"]) = 2
    /\ Len(results["formatString"]) = 1
    /\ json = Arr(<<Ref(1), Ref(1)>>)
    /\ heap[1] = Obj(K_a :> S_1)
    /\ Len(records) = 2
    /\ records[1] # records[2]
    /\ heap[records[1]] = Obj(K_a :> Num(1))
    /\ heap[records[2]] = Obj(K_a :> Num(1))

(***************************************************************************)
(* BaseDevice: updateOAuth2Token, stateChanged and updateState             *)
(***************************************************************************)
MaxUpdates == 2   \* most calls of updateOAuth2Token on one device

K_accessToken == <<"a", "c", "c", "e", "s", "s", "T", "o", "k", "e", "n">>
K_refreshToken == <<"r", "e", "f", "r", "e", "s", "h", "T", "o", "k", "e", "n">>
K_kind == <<"k", "i", "n", "d">>
K_scope == <<"s", "c", "o", "p", "e">>

\* this.emit('state-changed'): a listener sees the state of that moment
stateChanged(log, st) == Append(log, [name |-> "state-changed", state |-> st])

\* The variant that stores the refresh token whatever it is.
storeTokens_always(st, accessToken, refreshToken) ==
    Obj(Put(Put(st.m, K_accessToken, accessToken), K_refreshToken, refreshToken))
\* this.state.accessToken = accessToken;
\* if (refreshToken) this.state.refreshToken = refreshToken;
storeTokens(st, accessToken, refreshToken) ==
    IF Truthy(refreshToken)
        THEN Obj(Put(Put(st.m, K_accessToken, accessToken),
                     K_refreshToken, refreshToken))
    ELSE Obj(Put(st.m, K_accessToken, accessToken))

\* The serialized states of a device: a kind and a scope, with or without
\* the tokens of an earlier authentication.
DeviceStates ==
    LET base == K_kind :> Str(<<"k">>) @@ K_scope :> Str(<<"s">>)
    IN  { Obj(base),
          Obj(base @@ K_accessToken :> Str(<<"a">>)),
          Obj(base @@ K_accessToken :> Str(<<"a">>)
                   @@ K_refreshToken :> Str(<<"r">>)) }

AccessTokens == {Str(<<"b">>), Str(<<"c">>)}

\* No refresh token (undefined, null, the empty string) or a new one
RefreshTokens == {Undefined, Null, Str(<<>>), Str(<<"q">>)}

\* The whole response to the token request: nothing, or fields with the
\* names of fields of the state
ExtraData ==
    { Undefined,
      Obj(K_scope :> Str(<<"t">>) @@ K_refreshToken :> Str(<<"x">>)
          @@ K_kind :> Str(<<"j">>)) }

InitDevice ==
    /\ pc = "init"
    /\ state \in DeviceStates
    /\ events = <<>>
    /\ lastCall = [op |-> "none"]
    /\ PathIdle /\ ValueIdle /\ CompareIdle
    /\ FormatIdle /\ MixinIdle /\ FrameIdle /\ PrefsIdle
    /\ LateIdle

UpdateOAuth2Token ==
    /\ Len(events) < MaxUpdates
    /\ \E accessToken \in AccessTokens, refreshToken \in RefreshTokens,
          extraData \in ExtraData :
          /\ state' = storeTokens(state, accessToken, refreshToken)
          /\ events' = stateChanged(events, state')
          /\ lastCall' = [op |-> "updateOAuth2Token",
                          accessToken |-> accessToken,
                          refreshToken |-> refreshToken,
                          extraData |-> extraData]
    /\ UNCHANGED <<pc, pathVars, valueVars, joined, ret2, formatVars,
                   mixinVars, frameVars, prefsVars,
                   lateVars>>

\* updateState(state): this.state = state
UpdateState ==
    /\ lastCall.op # "updateState"
    /\ \E st \in DeviceStates :
          /\ state' = st
          /\ lastCall' = [op |-> "updateState"]
    /\ UNCHANGED <<events, pc, pathVars, valueVars, joined, ret2, formatVars,
                   mixinVars, frameVars, prefsVars,
                   lateVars>>

NextDevice == UpdateOAuth2Token \/ UpdateState

SpecDevice == InitDevice /\ [][NextDevice]_vars

\* A refresh token is provided: a non-empty string
Provided(token) == token.t = "string" /\ token.s # <<>>

\* The fields of the state other than the two tokens are the same fields
\* with the same values
OtherFieldsKept(old, new) ==
    /\ DOMAIN new.m \ {K_accessToken, K_refreshToken}
          = DOMAIN old.m \ {K_accessToken, K_refreshToken}
    /\ \A k \in DOMAIN old.m \ {K_accessToken, K_refreshToken} :
          new.m[k] = old.m[k]

\* The refresh token field is absent from both states or the same in both
RefreshTokenKept(old, new) ==
    /\ (K_refreshToken \in DOMAIN new.m) = (K_refreshToken \in DOMAIN old.m)
    /\ K_refreshToken \in DOMAIN old.m =>
          new.m[K_refreshToken] = old.m[K_refreshToken]

\* C19: every call of updateOAuth2Token(accessToken, refreshToken,
\* extraData) stores the access token in the state, stores the refresh
\* token when one is provided (a non-empty string) and keeps the stored
\* one otherwise, leaves every other field of the state as it was whatever
\* extraData holds, and emits 'state-changed' once, when the state is
\* already updated.
C19_TokenUpdate ==
    [][lastCall'.op = "updateOAuth2Token" =>
          /\ state'.m[K_accessToken] = lastCall'.accessToken
          /\ IF Provided(lastCall'.refreshToken)
                THEN state'.m[K_refreshToken] = lastCall'.refreshToken
                ELSE RefreshTokenKept(state, state')
          /\ OtherFieldsKept(state, state')
          /\ events' = Append(events, [name |-> "state-changed",
                                       state |-> state'])]_vars

\* A second call without a refresh token and with extra data, after a call
\* that stored one: the stored refresh token and the scope are kept.
C19_Witness ==
    /\ lastCall.op = "updateOAuth2Token"
    /\ lastCall.refreshToken = Undefined
    /\ lastCall.extraData # Undefined
    /\ Len(events) = 2
    /\ K_refreshToken \in DOMAIN events[1].state.m
    /\ events[1].state.m[K_refreshToken] = Str(<<"q">>)
    /\ K_refreshToken \in DOMAIN state.m
    /\ state.m[K_refreshToken] = Str(<<"q">>)
    /\ state.m[K_accessToken] = lastCall.accessToken
    /\ state.m[K_scope] = Str(<<"s">>)

(***************************************************************************)
(* FilePreferences                                                         *)
(*                                                                         *)
(* The store is the sequence of its [name, v] pairs in insertion order,    *)
(* the preference file is absent or holds a text, and a started file write *)
(* is in flight until it completes.                                        *)
(***************************************************************************)
MaxMutations == 3 \* most set, delete and changed calls on one store
MaxWrites == 2    \* most file writes in flight at a time

PrefNames == {K_a, K_b}
PrefValues == {Num(1), Num(2)}

Absent == [t |-> "absent"]
Text(chars) == [t |-> "text", text |-> chars]

\* The stores over the names: sequences of pairs with distinct names
Stores ==
    {ps \in SeqUpTo([name : PrefNames, v : PrefValues], Cardinality(PrefNames)) :
        \A i \in 1..Len(ps) : \A j \in 1..Len(ps) :
            i # j => ps[i].name # ps[j].name}

\* The members "a":1,"b":2 of the text from pair k on
RECURSIVE stringifyPairs(_, _)
stringifyPairs(ps, k) ==
    IF k > Len(ps) THEN <<>>
    ELSE (IF k > 1 THEN <<",">> ELSE <<>>)
         \o <<"\"">> \o ps[k].name \o <<"\"", ":">> \o DigitsOf(ps[k].v.n)
         \o stringifyPairs(ps, k + 1)

\* JSON.stringify(this._prefs)
stringify(ps) == <<"{">> \o stringifyPairs(ps, 1) \o <<"}">>

NullText == <<"n", "u", "l", "l">>

\* JSON.parse(text): the store the text serializes, null, or a SyntaxError
parse(chars) ==
    IF chars = NullText THEN Null
    ELSE IF \E ps \in Stores : stringify(ps) = chars
        THEN [t |-> "store", ps |-> CHOOSE ps \in Stores : stringify(ps) = chars]
    ELSE [t |-> "SyntaxError"]

\* this._prefs[name]
getPref(ps, name) ==
    IF \E i \in 1..Len(ps) : ps[i].name = name
        THEN ps[CHOOSE i \in 1..Len(ps) : ps[i].name = name].v
    ELSE Undefined

\* this._prefs[name] = value
setPref(ps, name, v) ==
    IF \E i \in 1..Len(ps) : ps[i].name = name
        THEN [i \in 1..Len(ps) |->
                 IF ps[i].name = name THEN [name |-> name, v |-> v] ELSE ps[i]]
    ELSE Append(ps, [name |-> name, v |-> v])

\* delete this._prefs[name]
deletePref(ps, name) == SelectSeq(ps, LAMBDA p : p.name # name)

\* _scheduleWrite(): sets the dirty flag and, unless a write is scheduled,
\* sets a timer; nothing assigns true to _writeScheduled.
scheduleWrite ==
    /\ dirty' = TRUE
    /\ timers' = IF writeScheduled THEN timers ELSE timers + 1
    /\ UNCHANGED writeScheduled

\* flush(): the writes in flight after the call
flush(isDirty, ps, inFlight) ==
    IF ~isDirty THEN inFlight ELSE Append(inFlight, stringify(ps))

\* The constructor on a file: the fields it leaves.  A missing file and a
\* text that does not parse leave no store, null parses to no store either;
\* then the empty store is taken and _scheduleWrite() sets a timer before
\* the two flags are assigned false.
construct(f) ==
    LET parsed == IF f.t = "absent" THEN [t |-> "ENOENT"] ELSE parse(f.text)
    IN  IF parsed.t = "store"
            THEN [prefs |-> parsed.ps, timers |-> 0,
                  dirty |-> FALSE, writeScheduled |-> FALSE]
        ELSE [prefs |-> <<>>, timers |-> 1,
              dirty |-> FALSE, writeScheduled |-> FALSE]

\* The preference files a store is constructed on
Files ==
    {Absent, Text(<<"{">>), Text(NullText)}
        \cup {Text(stringify(ps)) : ps \in {qs \in Stores : Len(qs) <= 1}}

InitPrefs ==
    /\ pc = "init"
    /\ file \in Files
    /\ prefs = construct(file).prefs
    /\ dirty = construct(file).dirty
    /\ writeScheduled = construct(file).writeScheduled
    /\ timers = construct(file).timers
    /\ writes = <<>>
    /\ emitted = 0
    /\ mutations = 0
    /\ PathIdle /\ ValueIdle /\ CompareIdle
    /\ FormatIdle /\ MixinIdle /\ FrameIdle /\ DeviceIdle
    /\ LateIdle

\* What no method of FilePreferences writes
prefsRest ==
    <<pc, pathVars, valueVars, joined, ret2, formatVars, mixinVars, frameVars,
      deviceVars, lateVars>>

\* set(name, value)
Set ==
    /\ mutations < MaxMutations
    /\ \E name \in PrefNames, v \in PrefValues :
          /\ prefs' = setPref(prefs, name, v)
          /\ emitted' = IF getPref(prefs, name) # v THEN emitted + 1 ELSE emitted
    /\ scheduleWrite
    /\ mutations' = mutations + 1
    /\ UNCHANGED <<file, writes, prefsRest>>

\* delete(name)
Delete ==
    /\ mutations < MaxMutations
    /\ \E name \in PrefNames : prefs' = deletePref(prefs, name)
    /\ emitted' = emitted + 1
    /\ scheduleWrite
    /\ mutations' = mutations + 1
    /\ UNCHANGED <<file, writes, prefsRest>>

\* changed()
Changed ==
    /\ mutations < MaxMutations
    /\ scheduleWrite
    /\ emitted' = emitted + 1
    /\ mutations' = mutations + 1
    /\ UNCHANGED <<prefs, file, writes, prefsRest>>

\* The callback of a timer: this._writeScheduled = false; this.flush();
TimerFires ==
    /\ timers > 0
    /\ dirty => Len(writes) < MaxWrites
    /\ timers' = timers - 1
    /\ writeScheduled' = FALSE
    /\ writes' = flush(dirty, prefs, writes)
    /\ UNCHANGED <<prefs, dirty, file, emitted, mutations, prefsRest>>

\* flush() called by the owner of the store
Flush ==
    /\ dirty => Len(writes) < MaxWrites
    /\ writes' = flush(dirty, prefs, writes)
    /\ UNCHANGED <<prefs, dirty, writeScheduled, timers, file, emitted,
                   mutations, prefsRest>>

\* fs.writeFile completes: the writes in flight complete in any order
WriteCompletes ==
    /\ \E i \in 1..Len(writes) :
          /\ file' = Text(writes[i])
          /\ writes' = SubSeq(writes, 1, i - 1) \o SubSeq(writes, i + 1, Len(writes))
    /\ UNCHANGED <<prefs, dirty, writeScheduled, timers, emitted, mutations,
                   prefsRest>>

NextPrefs ==
    \/ Set
    \/ Delete
    \/ Changed
    \/ TimerFires
    \/ Flush
    \/ WriteCompletes

SpecPrefs == InitPrefs /\ [][NextPrefs]_vars

\* C20: FilePreferences keeps at most one write timer pending: whatever
\* set, delete and changed calls are made before the timer fires, one
\* timer is set, and another is set only after it has fired.
C20_OneTimerPending == timers <= 1

\* Some set, delete or changed call was made, no timer is pending and no
\* file write is in flight.
Settled == mutations > 0 /\ timers = 0 /\ writes = <<>>

\* C21: after any sequence of set, delete and changed calls, when every
\* timer has fired and every started file write has completed, in whatever
\* order the writes complete, the text of the preference file is the
\* serialization of the store in memory.
C21_FileMatchesStore == Settled => file = Text(stringify(prefs))

(***************************************************************************)
(* FilePreferences with its scheduling: a timer that is set fires and a    *)
(* file write that has started completes.                                  *)
(***************************************************************************)
SpecPrefsLive ==
    /\ InitPrefs
    /\ [][NextPrefs]_vars
    /\ WF_vars(TimerFires)
    /\ WF_vars(WriteCompletes)

\* The constructor found no store: the file is missing or its text is not
\* the text of a store, and no call was made since.
FreshEmptyStore ==
    /\ mutations = 0
    /\ file.t = "absent" \/ (file.t = "text" /\ parse(file.text).t # "store")

\* C22: constructed on a file that is missing or does not parse, the store
\* is empty and, with no further call, the empty store is eventually
\* written to the file.
C22_EmptyStoreWritten ==
    FreshEmptyStore ~>
        (mutations > 0 \/ (prefs = <<>> /\ file = Text(stringify(<<>>))))

\* C23: a flush that writes leaves the dirty flag false, so that the flag
\* is true only when a set, delete or changed call came after the last
\* write and the next flush without such a call writes nothing.
C23_WriteClearsDirty == [][Len(writes') > Len(writes) => ~dirty']_vars

(***************************************************************************)
(* loadTextdomainDirectory                                                 *)
(*                                                                         *)
(* The function is asynchronous: it is entered, probes one candidate file  *)
(* per turn of its loop, and reads and parses the file it stopped at.      *)
(* disk is the set of the files of modir; parses tells whether reading     *)
(* the file, parsing it and adding its translations succeed.               *)
(***************************************************************************)
MaxLocale == 3    \* longest locale

LocaleChars == {"a", "b", "_", "-"}

\* /[-_.@]/
IsLocaleSep(c) == c \in {"-", "_", ".", "@"}

\* locale.split(/[-_.@]/) from character i on
RECURSIVE splitLocaleLoop(_, _, _, _)
splitLocaleLoop(s, i, cur, out) ==
    IF i > Len(s) THEN Append(out, cur)
    ELSE IF IsLocaleSep(s[i]) THEN splitLocaleLoop(s, i + 1, <<>>, Append(out, cur))
    ELSE splitLocaleLoop(s, i + 1, Append(cur, s[i]), out)

splitLocale(s) == splitLocaleLoop(s, 1, <<>>, <<>>)

\* split.join('_')
RECURSIVE joinUnderscore(_)
joinUnderscore(comps) ==
    IF Len(comps) = 0 THEN <<>>
    ELSE IF Len(comps) = 1 THEN comps[1]
    ELSE comps[1] \o <<"_">> \o joinUnderscore(Tail(comps))

ModDir == <<"m">>
Domain == <<"d">>

\* modir + '/' + split.join('_') + '.mo'
moFile(dir, comps) == dir \o <<"/">> \o joinUnderscore(comps) \o <<".", "m", "o">>

\* The variant that drops the leading component.
pop_first(comps) == Tail(comps)
\* split.pop()
pop(comps) == SubSeq(comps, 1, Len(comps) - 1)

\* gt.addTranslations(locale, domain, loaded)
addTranslations(catalog, loc, dom, loaded) ==
    catalog \cup {[locale |-> loc, domain |-> dom, file |-> loaded]}

\* The files modir may hold
DiskNames ==
    {moFile(ModDir, comps) :
        comps \in {<<>>, <<<<"a">>>>, <<<<"b">>>>, <<<<"a">>, <<"b">>>>,
                   <<<<"a">>, <<"a">>>>}}

InitLocale ==
    /\ pc = "init"
    /\ locale \in SeqUpTo(LocaleChars, MaxLocale)
    /\ disk \in SUBSET DiskNames
    /\ parses \in BOOLEAN
    /\ parts = <<>>
    /\ mo = <<>>
    /\ gt = {}
    /\ logged = "none"
    /\ PathIdle /\ ValueIdle /\ CompareIdle
    /\ FormatIdle /\ MixinIdle /\ FrameIdle /\ DeviceIdle /\ PrefsIdle
    /\ TickIdle

localeRest ==
    <<pathVars, valueVars, joined, ret2, formatVars, mixinVars, frameVars,
      deviceVars, prefsVars, ticks>>

\* let split = locale.split(...); let mo = ...
EnterLoad ==
    /\ pc = "init"
    /\ parts' = splitLocale(locale)
    /\ mo' = moFile(ModDir, splitLocale(locale))
    /\ pc' = "probe"
    /\ UNCHANGED <<locale, disk, parses, gt, logged, localeRest>>

\* while (!await exists(mo) && split.length) { split.pop(); mo = ... }
ProbeMiss ==
    /\ pc = "probe"
    /\ mo \notin disk /\ Len(parts) > 0
    /\ parts' = pop(parts)
    /\ mo' = moFile(ModDir, pop(parts))
    /\ UNCHANGED <<pc, locale, disk, parses, gt, logged, localeRest>>

\* The loop ends; if (split.length === 0) { console.error(...); return; }
ProbeStop ==
    /\ pc = "probe"
    /\ ~(mo \notin disk /\ Len(parts) > 0)
    /\ IF Len(parts) = 0
          THEN pc' = "done" /\ logged' = "no translations"
          ELSE pc' = "load" /\ UNCHANGED logged
    /\ UNCHANGED <<locale, parts, mo, disk, parses, gt, localeRest>>

\* try { loaded = parse(await readFile(mo)); gt.addTranslations(...) }
\* catch(e) { console.log(...) }
LoadFile ==
    /\ pc = "load"
    /\ IF parses
          THEN gt' = addTranslations(gt, locale, Domain, mo) /\ UNCHANGED logged
          ELSE logged' = "failed to load" /\ UNCHANGED gt
    /\ pc' = "done"
    /\ UNCHANGED <<locale, parts, mo, disk, parses, localeRest>>

NextLocale == EnterLoad \/ ProbeMiss \/ ProbeStop \/ LoadFile

\* Every await of the function is answered: exists and readFile settle.
SpecLocale == InitLocale /\ [][NextLocale]_vars /\ WF_vars(NextLocale)

\* The positions of the separators of the locale, and the k-th of them
SepPositions == {i \in 1..Len(locale) : IsLocaleSep(locale[i])}
KthSep(k) == CHOOSE i \in SepPositions : Cardinality({j \in SepPositions : j < i}) = k - 1

\* The number of components of the locale
NumComponents == Cardinality(SepPositions) + 1

\* Where the k-th component ends in the locale
ComponentEnd(k) == IF k = NumComponents THEN Len(locale) ELSE KthSep(k) - 1

\* The candidate file of the first k components: c1_.._ck.mo in modir
Candidate(k) ==
    ModDir \o <<"/">>
        \o [i \in 1..ComponentEnd(k) |->
               IF IsLocaleSep(locale[i]) THEN "_" ELSE locale[i]]
        \o <<".", "m", "o">>

\* The candidates that exist
Existing == {k \in 1..NumComponents : Candidate(k) \in disk}

\* While a candidate of k >= 1 components is probed it is c1_.._ck.mo.
ProbesInOrder ==
    (pc = "probe" /\ Len(parts) > 0) =>
        Len(parts) <= NumComponents /\ mo = Candidate(Len(parts))

\* On return the most specific existing candidate is registered under the
\* full locale and the domain when it loads, and nothing is added when no
\* candidate exists or the file fails to load.
LoadOutcome ==
    pc = "done" =>
        gt = IF Existing # {} /\ parses
                THEN {[locale |-> locale, domain |-> Domain,
                       file |-> Candidate(Max(Existing))]}
             ELSE {}

\* C24: loadTextdomainDirectory always returns; it probes the candidates
\* from c1_.._cn.mo down to c1.mo, one trailing component less per step,
\* registers the first that exists under the full locale and the domain,
\* and adds nothing, without raising, when none exists or the file fails
\* to parse.
C24_TerminatesWithMostSpecific ==
    <>(pc = "done") /\ [](ProbesInOrder /\ LoadOutcome)

\* The locale a-b with a.mo and b.mo on disk: a_b.mo is probed and
\* missed, a.mo is loaded and registered under a-b.
C24_Witness ==
    /\ pc = "done"
    /\ locale = <<"a", "-", "b">>
    /\ disk = {moFile(ModDir, <<<<"a">>>>), moFile(ModDir, <<<<"b">>>>)}
    /\ gt = {[locale |-> <<"a", "-", "b">>, domain |-> Domain,
              file |-> <<"m", "/", "a", ".", "m", "o">>]}

(***************************************************************************)
(* HttpPollingTrigger._onTick                                              *)
(*                                                                         *)
(* Every call of _onTick has a record: the phase of its promise chain,     *)
(* whether the response has arrived, the number of calls of _onResponse,   *)
(* whether _onResponse returned a promise, the reason of the pending       *)
(* rejection and the lines logged.  The polling timer may call _onTick     *)
(* again while an earlier chain is still running.                          *)
(***************************************************************************)
MaxTicks == 2     \* most calls of _onTick

K_message == <<"m", "e", "s", "s", "a", "g", "e">>
K_stack == <<"s", "t", "a", "c", "k">>

\* new Error(message)
Error(message) == Obj(K_message :> Str(message) @@ K_stack :> Str(<<"s">>))

\* What Helpers.Http.get rejects with
HttpErrors == {Error(<<"h">>)}

\* What an overriding _onResponse may throw or reject with: an Error, a
\* string, or no reason at all
HookReasons == {Error(<<"r">>), Str(<<"r">>), Undefined}

\* Helpers.Http.get(this.url, ...): the request is in flight
newTick ==
    [phase |-> "get", arrived |-> FALSE, calls |-> 0, promised |-> FALSE,
     reason |-> Undefined, logged |-> 0]

\* .catch(function(error) { console.error('...' + error.message);
\*                          console.error(error.stack); })
\* Reading a property of undefined or null raises inside the callback, and
\* the promise of the chain rejects with that TypeError.
catchCallback(tick) ==
    IF GetProp(tick.reason, K_message) = TypeError
        THEN [tick EXCEPT !.phase = "rejected", !.reason = TypeError]
    ELSE [tick EXCEPT !.phase = "resolved", !.logged = @ + 2]

InitTick ==
    /\ pc = "init"
    /\ ticks = <<>>
    /\ PathIdle /\ ValueIdle /\ CompareIdle
    /\ FormatIdle /\ MixinIdle /\ FrameIdle /\ DeviceIdle /\ PrefsIdle
    /\ LocaleIdle

tickRest ==
    <<pc, pathVars, valueVars, joined, ret2, formatVars, mixinVars, frameVars,
      deviceVars, prefsVars, localeVars>>

\* _onTick()
OnTick ==
    /\ Len(ticks) < MaxTicks
    /\ ticks' = Append(ticks, newTick)
    /\ UNCHANGED tickRest

\* The get resolves with the response
GetResolves ==
    /\ \E i \in 1..Len(ticks) :
          /\ ticks[i].phase = "get"
          /\ ticks' = [ticks EXCEPT ![i].phase = "response", ![i].arrived = TRUE]
    /\ UNCHANGED tickRest

\* The get rejects
GetRejects ==
    /\ \E i \in 1..Len(ticks), error \in HttpErrors :
          /\ ticks[i].phase = "get"
          /\ ticks' = [ticks EXCEPT ![i].phase = "failed", ![i].reason = error]
    /\ UNCHANGED tickRest

\* .then(function(response) { return this._onResponse(response); }): the
\* hook returns a value, returns a promise still pending, or throws
OnResponse ==
    /\ \E i \in 1..Len(ticks) :
          /\ ticks[i].phase = "response"
          /\ \/ ticks' = [ticks EXCEPT ![i].phase = "resolved", ![i].calls = @ + 1]
             \/ ticks' = [ticks EXCEPT ![i].phase = "handling",
                                       ![i].calls = @ + 1,
                                       ![i].promised = TRUE]
             \/ \E error \in HookReasons :
                   ticks' = [ticks EXCEPT ![i].phase = "failed",
                                          ![i].calls = @ + 1,
                                          ![i].reason = error]
    /\ UNCHANGED tickRest

\* The promise _onResponse returned settles
HookSettles ==
    /\ \E i \in 1..Len(ticks) :
          /\ ticks[i].phase = "handling"
          /\ \/ ticks' = [ticks EXCEPT ![i].phase = "resolved"]
             \/ \E error \in HookReasons :
                   ticks' = [ticks EXCEPT ![i].phase = "failed",
                                          ![i].reason = error]
    /\ UNCHANGED tickRest

\* The catch callback runs on the rejection
CatchRuns ==
    /\ \E i \in 1..Len(ticks) :
          /\ ticks[i].phase = "failed"
          /\ ticks' = [ticks EXCEPT ![i] = catchCallback(@)]
    /\ UNCHANGED tickRest

NextTick ==
    \/ OnTick
    \/ GetResolves
    \/ GetRejects
    \/ OnResponse
    \/ HookSettles
    \/ CatchRuns

SpecTick == InitTick /\ [][NextTick]_vars

\* C25: the promise of no tick rejects, whether the get fails or
\* _onResponse throws or rejects; _onResponse is called once for a tick
\* whose get succeeded, after the response arrived, and never for a tick
\* whose get failed.
C25_NeverRejects ==
    \A i \in 1..Len(ticks) :
        /\ ticks[i].phase # "rejected"
        /\ ticks[i].calls <= 1
        /\ ticks[i].calls = 1 => ticks[i].arrived
        /\ (ticks[i].arrived /\ ticks[i].phase # "response") => ticks[i].calls = 1

=============================================================================
